---- MODULE Spec2Model ----
(***************************************************************************)
(* Model of ruqe-ts: the Option (Some / None) and Result (Ok / Err)        *)
(* containers of src/src/option.ts and src/src/result.ts and the Panic     *)
(* error of src/src/panic.ts.                                              *)
(*                                                                         *)
(* The state is the set of container instances a program has built (two    *)
(* heaps, one per class family), the record of the most recent method     *)
(* call with its outcome, and the record of the call before it when that   *)
(* was the same call on the same instance (or, in a chained expression,   *)
(* the conversion the call is chained on).  readers holds the position of  *)
(* each of the concurrent readers that share an instance (idle, except in  *)
(* the specification of shared reading).                                   *)
(***************************************************************************)
EXTENDS Integers, Sequences, FiniteSets, TLC

VARIABLES options, results, last, prev, readers

vars == <<options, results, last, prev, readers>>

----------------------------------------------------------------------------
(* Bounds of the model.                                                    *)

MaxOptions == 2
MaxResults == 1
NumReaders == 2

----------------------------------------------------------------------------
(* JavaScript values.  Every value is a record of the same shape:          *)
(*   t    the run-time type or class ("number", "string", "undefined",     *)
(*        "boolean", "ref" for an Option instance, "Panic", "Error"),      *)
(*   n    the number, the truth value (1/0) or the heap index of a ref,    *)
(*   s    the string, or the message of an error object,                   *)
(*   name the name property of an error object.                            *)

Num(n) == [t |-> "number", n |-> n, s |-> "", name |-> ""]

Str(s) == [t |-> "string", n |-> 0, s |-> s, name |-> ""]

Undefined == [t |-> "undefined", n |-> 0, s |-> "", name |-> ""]

Bool(b) == [t |-> "boolean", n |-> IF b THEN 1 ELSE 0, s |-> "", name |-> ""]

Ref(i) == [t |-> "ref", n |-> i, s |-> "", name |-> ""]

\* new Error(message): the host's plain error class.
Error(message) == [t |-> "Error", n |-> 0, s |-> message, name |-> "Error"]

\* A Panic constructor without the assignment this.name = 'Panic': the name
\* stays the one the Error constructor gives.
Panic_Unnamed(message) == [t |-> "Panic", n |-> 0, s |-> message, name |-> "Error"]

\* new Panic(message): super(message); this.name = 'Panic'.
Panic(message) == [t |-> "Panic", n |-> 0, s |-> message, name |-> "Panic"]

\* error instanceof Panic
InstanceOfPanic(x) == x.t = "Panic"

\* The payloads a caller hands to the constructors.
Values == {Num(5), Undefined}

\* The error values a caller hands to new Err.
ErrorValues == {Str("boom"), Undefined}

----------------------------------------------------------------------------
(* Outcomes of a call: it returns a value or throws one; calls lists the   *)
(* callback invocations it made, in order.                                 *)

Return(v) == [kind |-> "return", value |-> v, calls |-> <<>>]

Throw(v) == [kind |-> "throw", value |-> v, calls |-> <<>>]

----------------------------------------------------------------------------
(* Callbacks a caller passes to match.  A callback is named; Apply is what *)
(* calling it on an argument list gives.                                   *)

Apply(f, args) ==
    CASE f = "identity" -> Return(IF args = <<>> THEN Undefined ELSE args[1])
      [] f = "double"   -> Return(IF args # <<>> /\ args[1].t = "number"
                                  THEN Num(args[1].n * 2)
                                  ELSE Str("NaN"))
      [] f = "zero"     -> Return(Num(0))
      [] f = "raise"    -> Throw(Error("callback failed"))

\* pattern.arm(args...): the call is recorded, its outcome is match's outcome.
Invoke(arm, f, args) ==
    LET r == Apply(f, args)
    IN  [kind |-> r.kind, value |-> r.value,
         calls |-> <<[arm |-> arm, args |-> args]>>]

\* The patterns callers pass: <<first arm, second arm>>, i.e. {some, none}
\* for an Option and {ok, err} for a Result.
Patterns == {<<"double", "zero">>, <<"raise", "identity">>, <<"identity", "raise">>}

NoPattern == <<>>

----------------------------------------------------------------------------
(* option.ts: class Some<T> and class None<T>.                             *)

\* The message of None.unwrap's Panic.  A TLA+ string cannot hold the
\* backquote character (U+0060); each of the four in the source's literal
\* is written here as an apostrophe.
NoneUnwrapMessage == "called 'Option::unwrap()' on a 'None' value"

Some(value) == [cls |-> "Some", _value |-> value]

None == [cls |-> "None", _value |-> Undefined]

\* A Some.unwrap that treats an undefined payload as absent.
Some_unwrap_Checked(self) ==
    IF self._value = Undefined THEN Throw(Panic(NoneUnwrapMessage))
                               ELSE Return(self._value)

Some_unwrap(self) == Return(self._value)

\* A Some.match that picks the arm by the payload instead of by the class.
Some_match_ByPayload(self, pattern) ==
    IF self._value = Undefined THEN Invoke("none", pattern[2], <<>>)
                               ELSE Invoke("some", pattern[1], <<self._value>>)

Some_match(self, pattern) == Invoke("some", pattern[1], <<self._value>>)

Some_isSome(self) == Return(Bool(TRUE))

\* A Some.isNone that decides by the payload instead of by the class.
Some_isNone_ByPayload(self) == Return(Bool(self._value = Undefined))

Some_isNone(self) == Return(Bool(FALSE))

\* A None.unwrap that hands back the empty _value field instead of throwing.
None_unwrap_ReturnsValue(self) == Return(self._value)

None_unwrap(self) == Throw(Panic(NoneUnwrapMessage))

None_match(self, pattern) == Invoke("none", pattern[2], <<>>)

None_isSome(self) == Return(Bool(FALSE))

None_isNone(self) == Return(Bool(TRUE))

\* The abstract methods of Option<T>: a call runs the instance's class's method.
Option_unwrap(self) ==
    IF self.cls = "Some" THEN Some_unwrap(self) ELSE None_unwrap(self)

Option_match(self, pattern) ==
    IF self.cls = "Some" THEN Some_match(self, pattern)
                         ELSE None_match(self, pattern)

Option_isSome(self) ==
    IF self.cls = "Some" THEN Some_isSome(self) ELSE None_isSome(self)

Option_isNone(self) ==
    IF self.cls = "Some" THEN Some_isNone(self) ELSE None_isNone(self)

----------------------------------------------------------------------------
(* result.ts: class Ok<T, E> and class Err<T, E>.  ok() and err() give the *)
(* Option instance they construct; the calling action puts it on the heap. *)

Ok(value) == [cls |-> "Ok", _value |-> value, _error |-> Undefined]

Err(error) == [cls |-> "Err", _value |-> Undefined, _error |-> error]

Ok_isOk(self) == Return(Bool(TRUE))

Ok_isErr(self) == Return(Bool(FALSE))

\* An Ok.ok that gives the empty option.
Ok_ok_None(self) == None

Ok_ok(self) == Some(self._value)

\* An Ok.err that wraps the success value, as Ok.ok does.
Ok_err_Some(self) == Some(self._value)

Ok_err(self) == None

\* An Ok.match that catches an error thrown by the ok arm and falls back to
\* the err arm with it.
Ok_match_Fallback(self, pattern) ==
    LET r == Invoke("ok", pattern[1], <<self._value>>)
        g == Invoke("err", pattern[2], <<r.value>>)
    IN  IF r.kind = "throw"
        THEN [kind |-> g.kind, value |-> g.value, calls |-> r.calls \o g.calls]
        ELSE r

Ok_match(self, pattern) == Invoke("ok", pattern[1], <<self._value>>)

Ok_unwrap(self) == Return(self._value)

Err_isOk(self) == Return(Bool(FALSE))

Err_isErr(self) == Return(Bool(TRUE))

Err_ok(self) == None

\* An Err.err that wraps the _value field instead of the _error field.
Err_err_OfValue(self) == Some(self._value)

Err_err(self) == Some(self._error)

\* An Err.match that calls the ok arm with the error.
Err_match_OkArm(self, pattern) == Invoke("ok", pattern[1], <<self._error>>)

Err_match(self, pattern) == Invoke("err", pattern[2], <<self._error>>)

\* An Err.unwrap that throws a new Panic instead of the held error.
Err_unwrap_NewPanic(self) == Throw(Panic("called 'Result::unwrap()' on an 'Err' value"))

Err_unwrap(self) == Throw(self._error)

\* The abstract methods of Result<T, E>.
Result_isOk(self) == IF self.cls = "Ok" THEN Ok_isOk(self) ELSE Err_isOk(self)

Result_isErr(self) == IF self.cls = "Ok" THEN Ok_isErr(self) ELSE Err_isErr(self)

Result_ok(self) == IF self.cls = "Ok" THEN Ok_ok(self) ELSE Err_ok(self)

Result_err(self) == IF self.cls = "Ok" THEN Ok_err(self) ELSE Err_err(self)

Result_match(self, pattern) ==
    IF self.cls = "Ok" THEN Ok_match(self, pattern) ELSE Err_match(self, pattern)

Result_unwrap(self) ==
    IF self.cls = "Ok" THEN Ok_unwrap(self) ELSE Err_unwrap(self)

----------------------------------------------------------------------------
(* The record of a call: the method, the receiver (heap and index), the    *)
(* pattern passed to match, and the outcome.                               *)

Call(op, heap, id, arms, out) ==
    [op |-> op, heap |-> heap, id |-> id, arms |-> arms, out |-> out]

NoCall == Call("", "", 0, NoPattern, [kind |-> "", value |-> Undefined, calls |-> <<>>])

\* A reader: where it is in its call (idle, loaded: it has read the
\* instance's fields, done: it has its result), the call, the fields it
\* read and what it got.
NoObject == [cls |-> "", _value |-> Undefined]

Observation(out, built) ==
    [kind |-> out.kind, value |-> out.value, calls |-> out.calls, built |-> built]

IdleReader ==
    [pc |-> "idle", call |-> NoCall, self |-> NoObject,
     got |-> Observation(NoCall.out, NoObject)]

Init ==
    /\ options = <<>>
    /\ results = <<>>
    /\ last = NoCall
    /\ prev = NoCall
    /\ readers = [r \in 1..NumReaders |-> IdleReader]

\* Two call records are the same call: the same method on the same instance
\* with the same pattern.
SameCall(a, b) ==
    /\ a.op = b.op
    /\ a.heap = b.heap
    /\ a.id = b.id
    /\ a.arms = b.arms

\* The caller makes a call: its record becomes last, and prev is the record
\* it replaces when the caller is repeating that call, none otherwise.
Made(call) ==
    /\ last' = call
    /\ prev' = IF SameCall(call, last) THEN last ELSE NoCall
    /\ UNCHANGED readers

----------------------------------------------------------------------------
(* Constructions.                                                          *)

NewSome(value) ==
    /\ Len(options) < MaxOptions
    /\ options' = Append(options, Some(value))
    /\ UNCHANGED <<results, last, prev, readers>>

NewNone ==
    /\ Len(options) < MaxOptions
    /\ options' = Append(options, None)
    /\ UNCHANGED <<results, last, prev, readers>>

NewOk(value) ==
    /\ Len(results) < MaxResults
    /\ results' = Append(results, Ok(value))
    /\ UNCHANGED <<options, last, prev, readers>>

NewErr(error) ==
    /\ Len(results) < MaxResults
    /\ results' = Append(results, Err(error))
    /\ UNCHANGED <<options, last, prev, readers>>

----------------------------------------------------------------------------
(* Method calls on an Option instance.                                     *)

CallIsSome(i) ==
    /\ Made(Call("isSome", "options", i, NoPattern, Option_isSome(options[i])))
    /\ UNCHANGED <<options, results>>

CallIsNone(i) ==
    /\ Made(Call("isNone", "options", i, NoPattern, Option_isNone(options[i])))
    /\ UNCHANGED <<options, results>>

\* An unwrap that takes the payload out and leaves the instance empty.
CallOptionUnwrap_Taking(i) ==
    /\ Made(Call("unwrap", "options", i, NoPattern, Option_unwrap(options[i])))
    /\ options' = [options EXCEPT ![i] = None]
    /\ UNCHANGED results

CallOptionUnwrap(i) ==
    /\ Made(Call("unwrap", "options", i, NoPattern, Option_unwrap(options[i])))
    /\ UNCHANGED <<options, results>>

CallOptionMatch(i, pattern) ==
    /\ Made(Call("match", "options", i, pattern, Option_match(options[i], pattern)))
    /\ UNCHANGED <<options, results>>

----------------------------------------------------------------------------
(* Method calls on a Result instance.  ok() and err() construct a new      *)
(* Option and return a reference to it.                                    *)

CallIsOk(i) ==
    /\ Made(Call("isOk", "results", i, NoPattern, Result_isOk(results[i])))
    /\ UNCHANGED <<options, results>>

CallIsErr(i) ==
    /\ Made(Call("isErr", "results", i, NoPattern, Result_isErr(results[i])))
    /\ UNCHANGED <<options, results>>

\* An ok() that consumes its receiver: the success value moves to the Option.
CallOk_Consuming(i) ==
    /\ Len(options) < MaxOptions
    /\ options' = Append(options, Result_ok(results[i]))
    /\ Made(Call("ok", "results", i, NoPattern, Return(Ref(Len(options) + 1))))
    /\ results' = [results EXCEPT ![i]._value = Undefined]

CallOk(i) ==
    /\ Len(options) < MaxOptions
    /\ options' = Append(options, Result_ok(results[i]))
    /\ Made(Call("ok", "results", i, NoPattern, Return(Ref(Len(options) + 1))))
    /\ UNCHANGED results

CallErr(i) ==
    /\ Len(options) < MaxOptions
    /\ options' = Append(options, Result_err(results[i]))
    /\ Made(Call("err", "results", i, NoPattern, Return(Ref(Len(options) + 1))))
    /\ UNCHANGED results

CallResultUnwrap(i) ==
    /\ Made(Call("unwrap", "results", i, NoPattern, Result_unwrap(results[i])))
    /\ UNCHANGED <<options, results>>

CallResultMatch(i, pattern) ==
    /\ Made(Call("match", "results", i, pattern, Result_match(results[i], pattern)))
    /\ UNCHANGED <<options, results>>

----------------------------------------------------------------------------

Next ==
    \/ \E value \in Values : NewSome(value)
    \/ NewNone
    \/ \E value \in Values : NewOk(value)
    \/ \E error \in ErrorValues : NewErr(error)
    \/ \E i \in DOMAIN options : CallIsSome(i)
    \/ \E i \in DOMAIN options : CallIsNone(i)
    \/ \E i \in DOMAIN options : CallOptionUnwrap(i)
    \/ \E i \in DOMAIN options : \E pattern \in Patterns : CallOptionMatch(i, pattern)
    \/ \E i \in DOMAIN results : CallIsOk(i)
    \/ \E i \in DOMAIN results : CallIsErr(i)
    \/ \E i \in DOMAIN results : CallOk(i)
    \/ \E i \in DOMAIN results : CallErr(i)
    \/ \E i \in DOMAIN results : CallResultUnwrap(i)
    \/ \E i \in DOMAIN results : \E pattern \in Patterns : CallResultMatch(i, pattern)

Spec == Init /\ [][Next]_vars

----------------------------------------------------------------------------
(* The receiver of the most recent call, and what kind of call it was.     *)

LastOnOption(op) == last.op = op /\ last.heap = "options"

LastOnResult(op) == last.op = op /\ last.heap = "results"

LastOption == options[last.id]

LastResult == results[last.id]

----------------------------------------------------------------------------
(* C1 as the specification states it: unwrap on a None never returns; it   *)
(* throws a Panic whose message is "called unwrap on an absent value".     *)
C1_AsStated ==
    (LastOnOption("unwrap") /\ LastOption.cls = "None")
        => /\ last.out.kind = "throw"
           /\ InstanceOfPanic(last.out.value)
           /\ last.out.value.s = "called unwrap on an absent value"

(* C1, amended: unwrap on a None never returns a value; it always throws a *)
(* Panic, and the Panic's message is the source's literal                  *)
(* "called [bq]Option::unwrap()[bq] on a [bq]None[bq] value", [bq] being   *)
(* the backquote character, written as an apostrophe in this module.       *)
C1_NoneUnwrapPanics ==
    (LastOnOption("unwrap") /\ LastOption.cls = "None")
        => /\ last.out.kind = "throw"
           /\ InstanceOfPanic(last.out.value)
           /\ last.out.value.name = "Panic"
           /\ last.out.value.s = "called 'Option::unwrap()' on a 'None' value"
           /\ last.out.calls = <<>>

C1_Witness ==
    /\ LastOnOption("unwrap")
    /\ LastOption.cls = "None"
    /\ last.out.kind = "throw"

(* C2: for every error value e, unwrap on Err(e) throws something that is  *)
(* an instance of Panic.                                                   *)
C2_ErrUnwrapThrowsPanic ==
    (LastOnResult("unwrap") /\ LastResult.cls = "Err")
        => /\ last.out.kind = "throw"
           /\ InstanceOfPanic(last.out.value)

(* C3: for every error value e, unwrap on Err(e) never returns normally    *)
(* and what it throws is the held error value e itself.                    *)
C3_ErrUnwrapThrowsHeldError ==
    (LastOnResult("unwrap") /\ LastResult.cls = "Err")
        => /\ last.out.kind = "throw"
           /\ last.out.value = LastResult._error
           /\ last.out.calls = <<>>

C3_Witness ==
    /\ LastOnResult("unwrap")
    /\ LastResult = Err(Str("boom"))
    /\ last.out = Throw(Str("boom"))

(* C4: one call to match invokes exactly one of the two callbacks, once:   *)
(* Some(v) the some arm with v, None the none arm with no argument, Ok(v)  *)
(* the ok arm with v, Err(e) the err arm with e; and when that callback    *)
(* returns, match returns its result unchanged.                            *)
MatchArm(self) ==
    CASE self.cls = "Some" -> [arm |-> "some", f |-> last.arms[1], args |-> <<self._value>>]
      [] self.cls = "None" -> [arm |-> "none", f |-> last.arms[2], args |-> <<>>]
      [] self.cls = "Ok"   -> [arm |-> "ok", f |-> last.arms[1], args |-> <<self._value>>]
      [] self.cls = "Err"  -> [arm |-> "err", f |-> last.arms[2], args |-> <<self._error>>]

MatchAsClaimed(self) ==
    LET m == MatchArm(self)
    IN  /\ Len(last.out.calls) = 1
        /\ last.out.calls[1] = [arm |-> m.arm, args |-> m.args]
        /\ Apply(m.f, m.args).kind = "return"
              => /\ last.out.kind = "return"
                 /\ last.out.value = Apply(m.f, m.args).value

C4_MatchCallsExactlyOneArm ==
    /\ LastOnOption("match") => MatchAsClaimed(LastOption)
    /\ LastOnResult("match") => MatchAsClaimed(LastResult)

C4_Witness ==
    /\ LastOnResult("match")
    /\ LastResult = Err(Str("boom"))
    /\ last.arms = <<"raise", "identity">>
    /\ last.out.kind = "return"
    /\ last.out.value = Str("boom")
    /\ last.out.calls = <<[arm |-> "err", args |-> <<Str("boom")>>]>>

(* C5: for every value v, Ok(v) has isOk() true, isErr() false, unwrap()   *)
(* returning v without throwing, ok() a Some holding v and err() a None.   *)
C5_OkContract ==
    LastResult.cls = "Ok" =>
        /\ LastOnResult("isOk") => last.out = Return(Bool(TRUE))
        /\ LastOnResult("isErr") => last.out = Return(Bool(FALSE))
        /\ LastOnResult("unwrap") => last.out = Return(LastResult._value)
        /\ LastOnResult("ok") =>
              /\ last.out.kind = "return"
              /\ last.out.value.t = "ref"
              /\ options[last.out.value.n].cls = "Some"
              /\ options[last.out.value.n]._value = LastResult._value
        /\ LastOnResult("err") =>
              /\ last.out.kind = "return"
              /\ last.out.value.t = "ref"
              /\ options[last.out.value.n].cls = "None"

C5_OkHolds == last.heap = "results" => C5_OkContract

C5_Witness ==
    /\ LastOnResult("ok")
    /\ LastResult = Ok(Num(5))
    /\ options[last.out.value.n] = Some(Num(5))

(* C6: for every error value e, Err(e) has isOk() false, isErr() true,     *)
(* ok() a None and err() a Some holding e; on every Result isErr() is the  *)
(* negation of isOk().                                                     *)
C6_ErrContract ==
    LastResult.cls = "Err" =>
        /\ LastOnResult("isOk") => last.out = Return(Bool(FALSE))
        /\ LastOnResult("isErr") => last.out = Return(Bool(TRUE))
        /\ LastOnResult("ok") =>
              /\ last.out.kind = "return"
              /\ last.out.value.t = "ref"
              /\ options[last.out.value.n].cls = "None"
        /\ LastOnResult("err") =>
              /\ last.out.kind = "return"
              /\ last.out.value.t = "ref"
              /\ options[last.out.value.n].cls = "Some"
              /\ options[last.out.value.n]._value = LastResult._error

C6_ErrHolds ==
    /\ last.heap = "results" => C6_ErrContract
    /\ \A i \in DOMAIN results :
          /\ Result_isOk(results[i]).value \in {Bool(TRUE), Bool(FALSE)}
          /\ Result_isErr(results[i]).value \in {Bool(TRUE), Bool(FALSE)}
          /\ Result_isErr(results[i]).value # Result_isOk(results[i]).value

C6_Witness ==
    /\ LastOnResult("err")
    /\ LastResult = Err(Str("boom"))
    /\ options[last.out.value.n] = Some(Str("boom"))

(* C7: for every value v, Some(v) has isSome() true, isNone() false and    *)
(* unwrap() returning v without throwing; None has isSome() false and      *)
(* isNone() true; on every Option exactly one of isSome() and isNone() is  *)
(* true.                                                                   *)
C7_OptionContract ==
    /\ LastOption.cls = "Some" =>
          /\ LastOnOption("isSome") => last.out = Return(Bool(TRUE))
          /\ LastOnOption("isNone") => last.out = Return(Bool(FALSE))
          /\ LastOnOption("unwrap") => last.out = Return(LastOption._value)
    /\ LastOption.cls = "None" =>
          /\ LastOnOption("isSome") => last.out = Return(Bool(FALSE))
          /\ LastOnOption("isNone") => last.out = Return(Bool(TRUE))

C7_OptionHolds ==
    /\ last.heap = "options" => C7_OptionContract
    /\ \A i \in DOMAIN options :
          /\ Option_isSome(options[i]).value \in {Bool(TRUE), Bool(FALSE)}
          /\ Option_isNone(options[i]).value \in {Bool(TRUE), Bool(FALSE)}
          /\ Option_isSome(options[i]).value # Option_isNone(options[i]).value

C7_Witness ==
    /\ LastOnOption("isNone")
    /\ LastOption = Some(Undefined)
    /\ last.out = Return(Bool(FALSE))

(* C8: a call throws only if it is unwrap on a None or an Err, or a match  *)
(* whose selected callback itself throws; every other call (isSome,        *)
(* isNone, isOk, isErr, ok, err, match, unwrap on Some and on Ok) returns  *)
(* normally, and a Panic is thrown only by unwrap on a None or an Err.     *)
SelectedArmThrows(self) ==
    LET m == MatchArm(self) IN Apply(m.f, m.args).kind = "throw"

C8_MisuseOfUnwrap ==
    \/ LastOnOption("unwrap") /\ LastOption.cls = "None"
    \/ LastOnResult("unwrap") /\ LastResult.cls = "Err"

C8_ThrowsOnlyOnMisuse ==
    /\ last.op # "" => last.out.kind \in {"return", "throw"}
    /\ last.out.kind = "throw" =>
          \/ C8_MisuseOfUnwrap
          \/ LastOnOption("match") /\ SelectedArmThrows(LastOption)
          \/ LastOnResult("match") /\ SelectedArmThrows(LastResult)
    /\ (last.out.kind = "throw" /\ InstanceOfPanic(last.out.value))
          => C8_MisuseOfUnwrap

C8_Witness ==
    /\ LastOnOption("unwrap")
    /\ LastOption = Some(Undefined)
    /\ last.out = Return(Undefined)

(* C9: a container never changes variant or payload once constructed: no    *)
(* step (a construction, any call, an unwrap that throws included) alters  *)
(* an existing instance; an Ok holds no error value, an Err no success     *)
(* value and a None no value; ok() and err() put a new Option on the heap  *)
(* and leave the Result they were called on as it was.                     *)
C9_Kept ==
    /\ Len(options') >= Len(options)
    /\ Len(results') >= Len(results)
    /\ \A i \in DOMAIN options : options'[i] = options[i]
    /\ \A i \in DOMAIN results : results'[i] = results[i]

C9_Exclusive ==
    /\ \A i \in DOMAIN options :
          options[i].cls = "None" => options[i]._value = Undefined
    /\ \A i \in DOMAIN results :
          /\ results[i].cls = "Ok" => results[i]._error = Undefined
          /\ results[i].cls = "Err" => results[i]._value = Undefined

C9_Conversion ==
    (last' # last /\ last'.op \in {"ok", "err"})
        => /\ Len(options') = Len(options) + 1
           /\ last'.out.value = Ref(Len(options) + 1)
           /\ results' = results

C9_Immutable == [][C9_Kept /\ C9_Exclusive' /\ C9_Conversion]_vars

C9_Witness ==
    /\ LastOnResult("unwrap")
    /\ last.out.kind = "throw"
    /\ prev # NoCall
    /\ LastResult = Err(Str("boom"))
    /\ \E i \in DOMAIN options : options[i] = Some(Str("boom"))

(* C10: every read is idempotent.  What a caller observes of a call is its *)
(* outcome, and for ok() and err() the Option that was built.  (1) After   *)
(* any further step (another read on any instance, a construction) the     *)
(* call most recently made would still give what it would have given       *)
(* before the step; (2) the call just made, made again at once, gives what *)
(* it gave; (3) a call that repeats the call before it gives the same as   *)
(* that one did, an unwrap that throws throwing the same content.          *)
Observed(call) ==
    IF call.op \in {"ok", "err"}
    THEN Observation(Return(Ref(0)), options[call.out.value.n])
    ELSE Observation(call.out, NoObject)

\* What the call would give on the heaps opts and ress.
ReplayIn(opts, ress, call) ==
    LET op == call.op
        id == call.id
    IN  IF call.heap = "options"
        THEN CASE op = "isSome" -> Observation(Option_isSome(opts[id]), NoObject)
               [] op = "isNone" -> Observation(Option_isNone(opts[id]), NoObject)
               [] op = "unwrap" -> Observation(Option_unwrap(opts[id]), NoObject)
               [] op = "match"  -> Observation(Option_match(opts[id], call.arms), NoObject)
        ELSE CASE op = "isOk"   -> Observation(Result_isOk(ress[id]), NoObject)
               [] op = "isErr"  -> Observation(Result_isErr(ress[id]), NoObject)
               [] op = "ok"     -> Observation(Return(Ref(0)), Result_ok(ress[id]))
               [] op = "err"    -> Observation(Return(Ref(0)), Result_err(ress[id]))
               [] op = "unwrap" -> Observation(Result_unwrap(ress[id]), NoObject)
               [] op = "match"  -> Observation(Result_match(ress[id], call.arms), NoObject)

Replay(call) == ReplayIn(options, results, call)

C10_ReadKept ==
    last.op # "" => ReplayIn(options', results', last) = ReplayIn(options, results, last)

C10_Repeatable == last.op # "" => Observed(last) = Replay(last)

C10_Repeated == prev # NoCall => Observed(last) = Observed(prev)

C10_Idempotent == [][C10_ReadKept /\ C10_Repeatable' /\ C10_Repeated']_vars

C10_Witness ==
    /\ prev # NoCall
    /\ LastOnResult("unwrap")
    /\ LastResult = Err(Str("boom"))
    /\ last.out = Throw(Str("boom"))
    /\ prev.out = Throw(Str("boom"))

----------------------------------------------------------------------------
(* Callers that construct error objects themselves: new Panic(m) and, for  *)
(* comparison, new Error(m).  The record of such a call holds the          *)
(* constructor's argument list in the arms field.                          *)

Messages == {"test error", "", "Panic"}

NewPanic(message) ==
    /\ Made(Call("new Panic", "", 0, <<message>>, Return(Panic(message))))
    /\ UNCHANGED <<options, results>>

NewError(message) ==
    /\ Made(Call("new Error", "", 0, <<message>>, Return(Error(message))))
    /\ UNCHANGED <<options, results>>

NextPanic ==
    \/ Next
    \/ \E message \in Messages : NewPanic(message)
    \/ \E message \in Messages : NewError(message)

SpecPanic == Init /\ [][NextPanic]_vars

(* C11: new Panic(m) gives a value whose message is exactly m and whose    *)
(* name is 'Panic', for every m; a handler that catches errors generically *)
(* tells it from another error: a Panic is an instance of Panic and named  *)
(* 'Panic', an Error built with the same message is neither.  The Panic    *)
(* that None.unwrap throws carries the name too.                           *)
C11_PanicMessageAndName ==
    /\ last.op = "new Panic" =>
          /\ last.out.kind = "return"
          /\ last.out.value.s = last.arms[1]
          /\ last.out.value.name = "Panic"
          /\ InstanceOfPanic(last.out.value)
    /\ last.op = "new Error" =>
          /\ last.out.value.s = last.arms[1]
          /\ last.out.value.name # "Panic"
          /\ ~InstanceOfPanic(last.out.value)
    /\ (last.out.kind = "throw" /\ InstanceOfPanic(last.out.value))
          => last.out.value.name = "Panic"

C11_Witness ==
    /\ last.op = "new Panic"
    /\ last.arms = <<"test error">>
    /\ last.out.value.s = "test error"
    /\ last.out.value.name = "Panic"

----------------------------------------------------------------------------
(* Shared reading: one instance, built before the readers start, is read   *)
(* by NumReaders concurrent readers without locking.  A reader's call runs *)
(* in two steps that the other readers' steps may come between: it reads   *)
(* the instance's fields (this._value, this._error), then it returns,      *)
(* calls the selected callback or constructs the Option from what it read. *)

InitShared ==
    /\ \/ \E value \in Values : options = <<Some(value)>> /\ results = <<>>
       \/ options = <<None>> /\ results = <<>>
       \/ \E value \in Values : options = <<>> /\ results = <<Ok(value)>>
       \/ \E error \in ErrorValues : options = <<>> /\ results = <<Err(error)>>
    /\ last = NoCall
    /\ prev = NoCall
    /\ readers = [r \in 1..NumReaders |-> IdleReader]

\* The calls a reader may make on the instances there are.
Reads ==
    {Call(op, "options", i, NoPattern, NoCall.out) :
        op \in {"isSome", "isNone", "unwrap"}, i \in DOMAIN options}
    \cup {Call("match", "options", i, p, NoCall.out) :
        i \in DOMAIN options, p \in Patterns}
    \cup {Call(op, "results", i, NoPattern, NoCall.out) :
        op \in {"isOk", "isErr", "ok", "err", "unwrap"}, i \in DOMAIN results}
    \cup {Call("match", "results", i, p, NoCall.out) :
        i \in DOMAIN results, p \in Patterns}

\* The instance a call is made on.
Instance(call) ==
    IF call.heap = "options" THEN options[call.id] ELSE results[call.id]

\* What the call gives from the fields the reader read.
ReplayOn(self, call) ==
    IF call.heap = "options"
    THEN ReplayIn([options EXCEPT ![call.id] = self], results, call)
    ELSE ReplayIn(options, [results EXCEPT ![call.id] = self], call)

\* A reader whose unwrap moves the payload out of the instance it reads.
ReaderLoad_Taking(r, read) ==
    /\ readers[r].pc = "idle"
    /\ readers' = [readers EXCEPT ![r] =
          [pc |-> "loaded", call |-> read, self |-> Instance(read),
           got |-> IdleReader.got]]
    /\ IF read.op = "unwrap" /\ read.heap = "options"
       THEN options' = [options EXCEPT ![read.id] = None] /\ UNCHANGED results
       ELSE UNCHANGED <<options, results>>
    /\ UNCHANGED <<last, prev>>

ReaderLoad(r, read) ==
    /\ readers[r].pc = "idle"
    /\ readers' = [readers EXCEPT ![r] =
          [pc |-> "loaded", call |-> read, self |-> Instance(read),
           got |-> IdleReader.got]]
    /\ UNCHANGED <<options, results, last, prev>>

ReaderFinish(r) ==
    /\ readers[r].pc = "loaded"
    /\ readers' = [readers EXCEPT ![r].pc = "done",
                                  ![r].got = ReplayOn(readers[r].self, readers[r].call)]
    /\ UNCHANGED <<options, results, last, prev>>

ReaderDone(r) ==
    /\ readers[r].pc = "done"
    /\ readers' = [readers EXCEPT ![r] = IdleReader]
    /\ UNCHANGED <<options, results, last, prev>>

NextShared ==
    \/ \E r \in 1..NumReaders : \E read \in Reads : ReaderLoad(r, read)
    \/ \E r \in 1..NumReaders : ReaderFinish(r)
    \/ \E r \in 1..NumReaders : ReaderDone(r)

SpecShared == InitShared /\ [][NextShared]_vars

(* C12: when several concurrent readers share one instance and read it in  *)
(* any interleaving, without locking, every reader gets what the same call *)
(* gives a caller running alone, the fields a reader has read are the      *)
(* instance's, and no step changes the instance.                           *)
C12_ReadersAgree ==
    \A r \in 1..NumReaders :
        /\ readers[r].pc = "loaded" => readers[r].self = Instance(readers[r].call)
        /\ readers[r].pc = "done" => readers[r].got = Replay(readers[r].call)

C12_InstanceKept ==
    /\ options' = options
    /\ results' = results

C12_SharedReads == [][C12_InstanceKept /\ C12_ReadersAgree']_vars

C12_Witness ==
    /\ options = <<Some(Num(5))>>
    /\ readers[1].pc = "done"
    /\ readers[1].call.op = "unwrap"
    /\ readers[1].got.value = Num(5)
    /\ readers[2].pc = "loaded"
    /\ readers[2].call.op = "unwrap"

----------------------------------------------------------------------------
(* Chained calls: a caller evaluates result.ok().unwrap() or               *)
(* result.err().unwrap().  The conversion builds an Option and unwrap is   *)
(* called on the Option it returned; last is the unwrap and prev the       *)
(* conversion it is chained on.                                            *)

ChainUnwrap(i, conversion) ==
    LET built == IF conversion = "ok" THEN Result_ok(results[i])
                                      ELSE Result_err(results[i])
        j == Len(options) + 1
    IN  /\ Len(options) < MaxOptions
        /\ options' = Append(options, built)
        /\ prev' = Call(conversion, "results", i, NoPattern, Return(Ref(j)))
        /\ last' = Call("unwrap", "options", j, NoPattern, Option_unwrap(options'[j]))
        /\ UNCHANGED <<results, readers>>

NextChain ==
    \/ Next
    \/ \E i \in DOMAIN results : \E conversion \in {"ok", "err"} : ChainUnwrap(i, conversion)

SpecChain == Init /\ [][NextChain]_vars

(* C13: for every v, Ok(v).ok().unwrap() returns v; for every e,           *)
(* Err(e).err().unwrap() returns e; Ok(v).err().unwrap() and               *)
(* Err(e).ok().unwrap() throw the Panic of None.unwrap, whatever v and e.  *)
C13_Chained ==
    /\ prev.op \in {"ok", "err"}
    /\ prev.heap = "results"
    /\ LastOnOption("unwrap")
    /\ last.id = prev.out.value.n

C13_Source == results[prev.id]

C13_ConversionThenUnwrap ==
    C13_Chained =>
        /\ (C13_Source.cls = "Ok" /\ prev.op = "ok")
              => last.out = Return(C13_Source._value)
        /\ (C13_Source.cls = "Err" /\ prev.op = "err")
              => last.out = Return(C13_Source._error)
        /\ (C13_Source.cls = "Ok" /\ prev.op = "err")
              => /\ last.out.kind = "throw"
                 /\ InstanceOfPanic(last.out.value)
                 /\ last.out.value.s = "called 'Option::unwrap()' on a 'None' value"
        /\ (C13_Source.cls = "Err" /\ prev.op = "ok")
              => /\ last.out.kind = "throw"
                 /\ InstanceOfPanic(last.out.value)
                 /\ last.out.value.s = "called 'Option::unwrap()' on a 'None' value"

C13_Witness ==
    /\ C13_Chained
    /\ C13_Source = Err(Str("boom"))
    /\ prev.op = "err"
    /\ last.out = Return(Str("boom"))

----------------------------------------------------------------------------
(* C14: the variant is fixed by the constructor, never by the payload.     *)
(* Some(undefined), Ok(undefined) and Err(undefined) answer isSome, isNone,*)
(* isOk and isErr as constructed; unwrap on Some(undefined) and on         *)
(* Ok(undefined) returns undefined without throwing; match calls the some, *)
(* ok or err arm with undefined; and Some(undefined) differs from None in  *)
(* what isSome, unwrap and match give.                                     *)
C14_OneCall(arm) == <<[arm |-> arm, args |-> <<Undefined>>]>>

C14_SomeUndefined ==
    (last.heap = "options" /\ LastOption = Some(Undefined)) =>
        /\ last.op = "isSome" => last.out = Return(Bool(TRUE))
        /\ last.op = "isNone" => last.out = Return(Bool(FALSE))
        /\ last.op = "unwrap" => last.out = Return(Undefined)
        /\ last.op = "match" => last.out.calls = C14_OneCall("some")

C14_OkUndefined ==
    (last.heap = "results" /\ LastResult = Ok(Undefined)) =>
        /\ last.op = "isOk" => last.out = Return(Bool(TRUE))
        /\ last.op = "isErr" => last.out = Return(Bool(FALSE))
        /\ last.op = "unwrap" => last.out = Return(Undefined)
        /\ last.op = "match" => last.out.calls = C14_OneCall("ok")

C14_ErrUndefined ==
    (last.heap = "results" /\ LastResult = Err(Undefined)) =>
        /\ last.op = "isOk" => last.out = Return(Bool(FALSE))
        /\ last.op = "isErr" => last.out = Return(Bool(TRUE))
        /\ last.op = "match" => last.out.calls = C14_OneCall("err")

C14_ToldFromNone ==
    \A i, j \in DOMAIN options :
        (options[i] = Some(Undefined) /\ options[j] = None) =>
            /\ Option_isSome(options[i]) # Option_isSome(options[j])
            /\ Option_unwrap(options[i]).kind # Option_unwrap(options[j]).kind
            /\ \A p \in Patterns :
                  Option_match(options[i], p).calls # Option_match(options[j], p).calls

C14_VariantByConstructor ==
    /\ C14_SomeUndefined
    /\ C14_OkUndefined
    /\ C14_ErrUndefined
    /\ C14_ToldFromNone

C14_Witness ==
    /\ LastOnOption("match")
    /\ LastOption = Some(Undefined)
    /\ last.arms = <<"identity", "raise">>
    /\ last.out.kind = "return"
    /\ last.out.value = Undefined
    /\ \E j \in DOMAIN options : options[j] = None

----------------------------------------------------------------------------
(* C15: when the callback match selects throws, match throws that same     *)
(* error: the selected callback is the only one called, the error is not   *)
(* wrapped in a Panic, and the step leaves every instance as it was.       *)
C15_Selected ==
    MatchArm(IF last.heap = "options" THEN LastOption ELSE LastResult)

C15_Propagates ==
    (last.op = "match" /\ Apply(C15_Selected.f, C15_Selected.args).kind = "throw") =>
        /\ last.out.kind = "throw"
        /\ last.out.value = Apply(C15_Selected.f, C15_Selected.args).value
        /\ ~InstanceOfPanic(last.out.value)
        /\ last.out.calls = <<[arm |-> C15_Selected.arm, args |-> C15_Selected.args]>>

C15_ContainerKept ==
    (<<last, prev>>' # <<last, prev>> /\ last'.op = "match" /\ last'.out.kind = "throw")
        => /\ options' = options
           /\ results' = results

C15_CallbackErrorPropagates == [][C15_Propagates' /\ C15_ContainerKept]_vars

C15_Witness ==
    /\ LastOnResult("match")
    /\ LastResult = Ok(Num(5))
    /\ last.arms = <<"raise", "identity">>
    /\ last.out.kind = "throw"
    /\ last.out.value = Error("callback failed")
    /\ last.out.calls = <<[arm |-> "ok", args |-> <<Num(5)>>]>>

====
